---- MODULE Spec2Model ----
(***************************************************************************)
(* BTC OHLC data updater (src/update_data.py): one run loads the stored    *)
(* candle table, fetches recent hourly candles from the first provider     *)
(* that answers (Bybit, OKX, CryptoCompare), merges them into the table    *)
(* with keep-last deduplication and a sort, and writes the table back.     *)
(***************************************************************************)
EXTENDS Integers, Sequences, FiniteSets, TLC

(***************************************************************************)
(* Bounds of the model.                                                    *)
(***************************************************************************)
\* hours (since the epoch, UTC) the providers and the seeded table cover
MaxHour == 3
\* distinct prices a provider quotes
MaxPrice == 2
\* rows in one provider payload
MaxLen == 2
\* rows of the two inputs of the stand-alone merge
MaxMergeLen == 2

(***************************************************************************)
(* Values.                                                                 *)
(***************************************************************************)
\* `return None` / `return None, None`
None == [none |-> TRUE]
\* a DataFrame indexed by timestamp: its rows in index order
DataFrame(rows) == [rows |-> rows]
\* not-a-number, the value pd.to_numeric(errors='coerce') gives a bad cell
NaN == -1
\* not-a-time, the max() of an empty timestamp column
NaT == [nat |-> TRUE]
\* seconds in one hour, the interval of the candles ('60' minutes, '1H')
SecPerHour == 3600
\* Asia/Singapore is UTC+8 (all year, since 1982)
UtcOffsetHours == 8

\* hours since the epoch: 2024-01-01T00:00:00Z is day 19723, and the hours
\* the providers and the seeded table cover start there
FirstHour == 19723 * 24
Hours == {FirstHour + k : k \in 0..(MaxHour - 1)}
Prices == 1..MaxPrice
Floats == Prices \cup {NaN}

\* a Python integer of epoch milliseconds, kept as thousands and units
\* (thousands * 1000 + units) so that it fits the checker's integers
Int64(thousands, units) == [k |-> thousands, u |-> units]
\* an instant, or a naive civil time: seconds and milliseconds since
\* 1970-01-01 00:00:00
Timestamp(sec, msec) == [sec |-> sec, msec |-> msec]
\* a < b on timestamps
Before(a, b) == a.sec < b.sec \/ (a.sec = b.sec /\ a.msec < b.msec)

\* tz_convert('Asia/Singapore').tz_localize(None): the civil time at UTC+8,
\* offset dropped
tz_convert(t) == Timestamp(t.sec + UtcOffsetHours * SecPerHour, t.msec)

\* pd.to_datetime(open_time.astype(int), unit='ms', utc=True), then the
\* conversion to GMT+8
to_datetime_ms(open_time) == tz_convert(Timestamp(open_time.k, open_time.u))

\* the same with the seconds read as milliseconds (unit='ms')
to_datetime_s_as_ms(time) == tz_convert(Timestamp(time \div 1000, time % 1000))

\* pd.to_datetime(time, unit='s', utc=True), then the conversion to GMT+8
to_datetime_s(time) == tz_convert(Timestamp(time, 0))

\* the civil timestamps tables are keyed by
Timestamps == {tz_convert(Timestamp(h * SecPerHour, 0)) : h \in Hours}

\* a numeric cell as the providers send it
NumStr(p) == ToString(p)
BadStr == "abc"
\* pd.to_numeric(col, errors='coerce') on one cell
to_numeric(s) ==
  IF \E p \in Prices : NumStr(p) = s
  THEN CHOOSE p \in Prices : NumStr(p) = s
  ELSE NaN

Row(t, o, h, l, c, v) ==
  [timestamp |-> t, open |-> o, high |-> h, low |-> l, close |-> c, volume |-> v]

(***************************************************************************)
(* The CSV file: a sequence of lines, each a tuple of cells; the first     *)
(* line is the header.  NoFile is the file that does not exist.            *)
(***************************************************************************)
NoFile == [exists |-> FALSE]
File(lines) == [exists |-> TRUE, lines |-> lines]
Header == <<"timestamp", "open", "high", "low", "close", "volume">>

\* to_csv's rendering of a float cell (NaN is the empty cell)
FloatToCsv(x) == IF x = NaN THEN "" ELSE ToString(x) \o ".0"
\* read_csv's parse of a float cell
CsvToFloat(s) ==
  IF \E p \in Prices : FloatToCsv(p) = s
  THEN CHOOSE p \in Prices : FloatToCsv(p) = s
  ELSE NaN
\* a number in decimal, with a leading zero below ten
TwoDigits(n) == IF n < 10 THEN "0" \o ToString(n) ELSE ToString(n)
ThreeDigits(n) == IF n < 100 THEN "0" \o TwoDigits(n) ELSE ToString(n)

\* year, month and day of the day with this number since 1970-01-01, in the
\* proleptic Gregorian calendar
CivilFromDays(days) ==
  LET z == days + 719468
      era == z \div 146097
      doe == z - era * 146097
      yoe == (doe - doe \div 1460 + doe \div 36524 - doe \div 146096) \div 365
      doy == doe - (365 * yoe + yoe \div 4 - yoe \div 100)
      mp == (5 * doy + 2) \div 153
      m == IF mp < 10 THEN mp + 3 ELSE mp - 9
  IN [year |-> yoe + era * 400 + (IF m <= 2 THEN 1 ELSE 0),
      month |-> m,
      day |-> doy - (153 * mp + 2) \div 5 + 1]

\* a naive timestamp as pandas prints it: YYYY-MM-DD HH:MM:SS, with the
\* fraction when there is one
strftime(t) ==
  LET date == CivilFromDays(t.sec \div 86400)
      sod == t.sec % 86400
  IN ToString(date.year) \o "-" \o TwoDigits(date.month) \o "-" \o TwoDigits(date.day)
     \o " " \o TwoDigits(sod \div 3600) \o ":" \o TwoDigits((sod % 3600) \div 60)
     \o ":" \o TwoDigits(sod % 60)
     \o (IF t.msec = 0 THEN "" ELSE "." \o ThreeDigits(t.msec) \o "000")

\* the text of each timestamp a table can hold
TimestampText == [t \in Timestamps |-> strftime(t)]

\* to_csv's rendering of the datetime index
TimestampToCsv(t) == IF t \in Timestamps THEN TimestampText[t] ELSE strftime(t)
\* read_csv(parse_dates=['timestamp']) on one cell
CsvToTimestamp(s) ==
  IF \E t \in Timestamps : TimestampText[t] = s
  THEN CHOOSE t \in Timestamps : TimestampText[t] = s
  ELSE NaT

RowToCsv(r) ==
  <<TimestampToCsv(r.timestamp), FloatToCsv(r.open), FloatToCsv(r.high),
    FloatToCsv(r.low), FloatToCsv(r.close), FloatToCsv(r.volume)>>
CsvToRow(l) ==
  Row(CsvToTimestamp(l[1]), CsvToFloat(l[2]), CsvToFloat(l[3]),
      CsvToFloat(l[4]), CsvToFloat(l[5]), CsvToFloat(l[6]))

\* the complete text df.to_csv(CSV_FILE) writes: header, then one line per row
to_csv(df) == <<Header>> \o [i \in 1..Len(df.rows) |-> RowToCsv(df.rows[i])]

\* pd.read_csv(csv_file, parse_dates=['timestamp']): the DataFrame, or the
\* exception it raises
read_csv(file) ==
  IF ~file.exists THEN [raises |-> "FileNotFoundError"]
  ELSE IF file.lines = <<>> THEN [raises |-> "EmptyDataError"]
  ELSE IF \A j \in 1..Len(file.lines[1]) : file.lines[1][j] # "timestamp"
       THEN [raises |-> "ValueError"]
  ELSE DataFrame([i \in 1..(Len(file.lines) - 1) |-> CsvToRow(file.lines[i + 1])])

(***************************************************************************)
(* Store reader.                                                           *)
(***************************************************************************)
SeqMax(s) ==
  IF s = <<>> THEN NaT
  ELSE CHOOSE m \in {s[i].timestamp : i \in 1..Len(s)} :
         \A i \in 1..Len(s) : ~Before(m, s[i].timestamp)

\* a reader that starts from an empty table when the file cannot be read
get_latest_timestamp_bootstrap(file) ==
  LET df == read_csv(file) IN
  IF "raises" \in DOMAIN df
  THEN <<NaT, DataFrame(<<>>)>>
  ELSE <<SeqMax(df.rows), df>>

\* get_latest_timestamp_from_csv(csv_file): the pair it returns
get_latest_timestamp_from_csv(file) ==
  LET df == read_csv(file) IN
  IF "raises" \in DOMAIN df
  THEN <<None, None>>
  ELSE <<SeqMax(df.rows), df>>

(***************************************************************************)
(* Reconciler: the three pandas steps of update_csv.                       *)
(***************************************************************************)
\* pd.concat([df_existing, df_new])
\* the existing frame left out of the concatenation
concat_new_only(a, b) == DataFrame(b.rows)

\* pd.concat([df_existing, df_new])
concat(a, b) == DataFrame(a.rows \o b.rows)

\* keep='first' in place of keep='last': an earlier row has the key
duplicated_keep_first(rows, i) ==
  \E j \in 1..(i - 1) : rows[j].timestamp = rows[i].timestamp

\* keep=False in place of keep='last': any other row has the key
duplicated_keep_false(rows, i) ==
  \E j \in 1..Len(rows) : j # i /\ rows[j].timestamp = rows[i].timestamp

\* df.index.duplicated(keep='last') at position i: a later row has the key
duplicated(rows, i) ==
  \E j \in (i + 1)..Len(rows) : rows[j].timestamp = rows[i].timestamp

\* df[~df.index.duplicated(keep='last')]
RECURSIVE KeepFrom(_, _)
KeepFrom(rows, i) ==
  IF i > Len(rows) THEN <<>>
  ELSE IF duplicated(rows, i) THEN KeepFrom(rows, i + 1)
  ELSE <<rows[i]>> \o KeepFrom(rows, i + 1)
\* the dedup left out
drop_duplicated_omitted(df) == df

drop_duplicated(df) == DataFrame(KeepFrom(df.rows, 1))

\* insertion of one row into a sorted sequence, after the rows with an
\* equal key
RECURSIVE Insert(_, _)
Insert(sorted, r) ==
  IF sorted = <<>> THEN <<r>>
  ELSE IF Before(r.timestamp, Head(sorted).timestamp) THEN <<r>> \o sorted
  ELSE <<Head(sorted)>> \o Insert(Tail(sorted), r)
RECURSIVE SortRows(_)
SortRows(rows) ==
  IF rows = <<>> THEN <<>>
  ELSE Insert(SortRows(SubSeq(rows, 1, Len(rows) - 1)), rows[Len(rows)])
RECURSIVE Reverse(_)
Reverse(rows) ==
  IF rows = <<>> THEN <<>> ELSE Append(Reverse(Tail(rows)), Head(rows))
\* the sort left out: the frame stays in concatenation order
sort_index_omitted(df) == df

\* sort_index(ascending=False)
sort_index_descending(df) == DataFrame(Reverse(SortRows(df.rows)))

\* df.sort_index(inplace=True)
sort_index(df) == DataFrame(SortRows(df.rows))

\* lines 276-282 of update_csv: concat, keep-last dedup, sort
merge(df_e, df_n) == sort_index(drop_duplicated(concat(df_e, df_n)))


(***************************************************************************)
(* Provider adapters.  A response is what requests.get and response.json   *)
(* deliver: an exception, an error envelope, or an envelope with klines.   *)
(***************************************************************************)
ResponseKinds == {"ConnectionError", "Timeout", "HTTPError", "JSONDecodeError",
                  "api_error", "ok"}
Response(kind, klines) == [kind |-> kind, klines |-> klines]

\* the five numeric cells a provider sends for one candle: a clean quote at
\* each price, and one whose volume does not parse
Quotes == {<<NumStr(p), NumStr(p), NumStr(p), NumStr(p), NumStr(p)>> : p \in Prices}
          \cup {<<NumStr(1), NumStr(1), NumStr(1), NumStr(1), BadStr>>}
\* the decimal text of an integer of milliseconds
IntText(n) == ToString(n.k) \o ThreeDigits(n.u)
\* the start of an hour in epoch milliseconds
HourMs(h) == Int64(h * SecPerHour, 0)
\* the epoch milliseconds a provider can send: the starts of the hours, and
\* instants off the hour by these seconds and milliseconds
OffSeconds == {0, 1, 1800, 3599}
OffMillis == {0, 1, 999}
ProviderMs == {Int64(h * SecPerHour + ds, dm) : h \in Hours, ds \in OffSeconds, dm \in OffMillis}
\* the timestamp cell: epoch milliseconds of an hour, or text that is no integer
TimeCells == {IntText(HourMs(h)) : h \in Hours} \cup {BadStr}

\* open_time.astype(int) on one cell: the integer, or the ValueError it raises
astype_int(s) ==
  IF \E n \in ProviderMs : IntText(n) = s
  THEN CHOOSE n \in ProviderMs : IntText(n) = s
  ELSE [raises |-> "ValueError"]

\* Bybit: [startTime, openPrice, highPrice, lowPrice, closePrice, volume, turnover]
BybitKlines == {<<t, q[1], q[2], q[3], q[4], q[5], "0">> : t \in TimeCells, q \in Quotes}
\* OKX: [ts, o, h, l, c, vol, volCcy, volCcyQuote, confirm]
OkxKlines == {<<t, q[1], q[2], q[3], q[4], q[5], "0", "0", "1">> : t \in TimeCells, q \in Quotes}
\* CryptoCompare: objects keyed by name, time in epoch seconds
CryptoCompareKlines ==
  {[time |-> h * SecPerHour, open |-> q[1], high |-> q[2], low |-> q[3],
    close |-> q[4], volumefrom |-> q[5], volumeto |-> "0"] : h \in Hours, q \in Quotes}

SeqsUpTo(S, n) == UNION {[1..k -> S] : k \in 0..n}

\* the sequences sort_values('timestamp') / sort_index() can produce: the
\* default quicksort is not stable, so rows with equal keys come in any order
SortedPermutations(rows) ==
  LET n == Len(rows)
      perms == {f \in [1..n -> 1..n] : \A i, j \in 1..n : f[i] = f[j] => i = j}
  IN {[i \in 1..n |-> rows[f[i]]] : f \in
        {g \in perms : \A i \in 1..(n - 1) :
                          ~Before(rows[g[i + 1]].timestamp, rows[g[i]].timestamp)}}

\* the rows lines 74-89 and 200-214 build from a list of klines
ListRows(klines) ==
  [i \in 1..Len(klines) |->
     Row(to_datetime_ms(astype_int(klines[i][1])), to_numeric(klines[i][2]),
         to_numeric(klines[i][3]), to_numeric(klines[i][4]),
         to_numeric(klines[i][5]), to_numeric(klines[i][6]))]
\* the rows lines 135-155 build from CryptoCompare's objects
ObjectRows(klines) ==
  [i \in 1..Len(klines) |->
     Row(to_datetime_s(klines[i].time), to_numeric(klines[i].open),
         to_numeric(klines[i].high), to_numeric(klines[i].low),
         to_numeric(klines[i].close), to_numeric(klines[i].volumefrom))]

\* what one adapter call ends with: the value it hands back (a frame, None,
\* or an exception on its way out) and the cause it logged
Raises(e) == [raises |-> e]
Outcome(value, cause) == [value |-> value, log |-> cause]

\* the exceptions requests.get, raise_for_status and response.json raise
RequestErrors == {"ConnectionError", "Timeout", "HTTPError", "JSONDecodeError"}

\* the try block of fetch_from_bybit, lines 57-98
bybit_try(resp) ==
  IF resp.kind \in RequestErrors THEN {Outcome(Raises(resp.kind), resp.kind)}
  ELSE IF resp.kind # "ok" THEN {Outcome(None, "api_error")}
  ELSE IF resp.klines = <<>> THEN {Outcome(None, "empty")}
  ELSE IF \E i \in 1..Len(resp.klines) : "raises" \in DOMAIN astype_int(resp.klines[i][1])
       THEN {Outcome(Raises("ValueError"), "ValueError")}
  ELSE {Outcome(DataFrame(r), "ok") : r \in SortedPermutations(ListRows(resp.klines))}

\* the try block of fetch_from_okx, lines 183-223
okx_try(resp) ==
  IF resp.kind \in RequestErrors THEN {Outcome(Raises(resp.kind), resp.kind)}
  ELSE IF resp.kind # "ok" THEN {Outcome(None, "api_error")}
  ELSE IF resp.klines = <<>> THEN {Outcome(None, "empty")}
  ELSE IF \E i \in 1..Len(resp.klines) : "raises" \in DOMAIN astype_int(resp.klines[i][1])
       THEN {Outcome(Raises("ValueError"), "ValueError")}
  ELSE {Outcome(DataFrame(r), "ok") : r \in SortedPermutations(ListRows(resp.klines))}

\* the try block of fetch_from_cryptocompare, lines 119-163
cryptocompare_try(resp) ==
  IF resp.kind \in RequestErrors THEN {Outcome(Raises(resp.kind), resp.kind)}
  ELSE IF resp.kind # "ok" THEN {Outcome(None, "api_error")}
  ELSE IF resp.klines = <<>> THEN {Outcome(None, "empty")}
  ELSE {Outcome(DataFrame(r), "ok") : r \in SortedPermutations(ObjectRows(resp.klines))}

\* a handler that catches the exceptions of the requests library only
except_RequestException(o) ==
  IF "raises" \in DOMAIN o.value /\ o.value.raises \in RequestErrors \ {"JSONDecodeError"}
  THEN Outcome(None, o.log)
  ELSE o

\* `except Exception as e: log(...); return None`, the handler of each adapter
except_Exception(o) ==
  IF "raises" \in DOMAIN o.value THEN Outcome(None, o.log) ELSE o

\* fetch_from_bybit(limit): the outcomes it can have for a response
fetch_from_bybit(resp) == {except_Exception(o) : o \in bybit_try(resp)}

\* fetch_from_okx(limit)
fetch_from_okx(resp) == {except_Exception(o) : o \in okx_try(resp)}

\* fetch_from_cryptocompare(limit)
fetch_from_cryptocompare(resp) == {except_Exception(o) : o \in cryptocompare_try(resp)}

\* the first two entries of `apis` swapped
apis_swapped == <<"OKX", "Bybit", "CryptoCompare">>

\* the list `apis` of fetch_recent_klines, in order of preference
apis == <<"Bybit", "OKX", "CryptoCompare">>

\* the responses a provider can give
Responses(name) ==
  LET klines == IF name = "Bybit" THEN BybitKlines
                ELSE IF name = "OKX" THEN OkxKlines
                ELSE CryptoCompareKlines
  IN {Response(k, <<>>) : k \in ResponseKinds \ {"ok"}}
     \cup {Response("ok", p) : p \in SeqsUpTo(klines, MaxLen)}

\* fetch_func(limit) for the entry of `apis` with this name
fetch_func(name, resp) ==
  IF name = "Bybit" THEN fetch_from_bybit(resp)
  ELSE IF name = "OKX" THEN fetch_from_okx(resp)
  ELSE fetch_from_cryptocompare(resp)

\* every outcome a call of the adapter with this name can have, over all the
\* responses its provider can give
AdapterOutcomes ==
  [name \in {apis[i] : i \in 1..Len(apis)} |->
     UNION {fetch_func(name, resp) : resp \in Responses(name)}]

(***************************************************************************)
(* State of one run of main(), and the CSV file it works on.               *)
(***************************************************************************)
VARIABLES
  store,            \* the file CSV_FILE
  pc,               \* the statement the run is at
  latest_csv_time,  \* update_csv's local latest_csv_time
  df_existing,      \* update_csv's local df_existing
  api,              \* position of fetch_recent_klines' loop in `apis`
  df_new,           \* update_csv's local df_new
  df_combined,      \* update_csv's local df_combined
  new_rows,         \* update_csv's local new_rows
  written,          \* lines of the text to_csv has put in the file
  success,          \* what update_csv returned: "True", "False", or "unset"
  exit_status,      \* the status main() passed to sys.exit, -1 before it
  calls,            \* history: the adapters invoked in this run, in order
  results,          \* history: what each of those invocations returned
  store0,           \* history: the file as it was when this run started
  saves,            \* history: the to_csv calls of this run
  df_again,         \* the merge applied a second time (stand-alone merge only)
  cause,            \* the cause the last adapter of the running loop logged
  requests,         \* history: the requests.get calls of this run
  instant,          \* a provider timestamp (stand-alone conversion only)
  stamps            \* what each adapter stores for it (stand-alone conversion only)

vars == <<store, pc, latest_csv_time, df_existing, api, df_new, df_combined,
          new_rows, written, success, exit_status, calls, results, store0,
          saves, df_again, cause, requests, instant, stamps>>

\* the variables of the adapter call, and those of the stand-alone conversion
net == <<cause, requests>>
conv == <<instant, stamps>>
\* no conversion under way
NoInstant == [none |-> TRUE]
NoStamps == [a \in {} |-> 0]

\* the rows a table can hold: a civil timestamp and a quote, parsed
TableRows ==
  {Row(t, to_numeric(q[1]), to_numeric(q[2]), to_numeric(q[3]),
       to_numeric(q[4]), to_numeric(q[5])) : t \in Timestamps, q \in Quotes}

\* strictly increasing timestamps: the invariant of the candle table
StrictlyIncreasing(rows) ==
  \A i \in 1..(Len(rows) - 1) : Before(rows[i].timestamp, rows[i + 1].timestamp)

\* the tables the file can be seeded with
SeedTables == {t \in SeqsUpTo(TableRows, MaxHour) : StrictlyIncreasing(t)}

\* the file before the first run: missing, malformed (no timestamp column),
\* or a table this program wrote
CorruptFile == File(<<<<"open", "close">>>>)
SeedStores ==
  {NoFile, CorruptFile}
  \cup {File(to_csv(DataFrame(t))) : t \in SeedTables}

\* the locals of a run before update_csv has assigned them
RunStart ==
  /\ pc = "LoadExisting"
  /\ latest_csv_time = None
  /\ df_existing = None
  /\ api = 1
  /\ df_new = None
  /\ df_combined = None
  /\ new_rows = 0
  /\ written = 0
  /\ success = "unset"
  /\ exit_status = -1
  /\ calls = <<>>
  /\ results = <<>>
  /\ saves = 0
  /\ df_again = None
  /\ cause = "none"
  /\ requests = 0
  /\ instant = NoInstant
  /\ stamps = NoStamps

Init ==
  /\ store \in SeedStores
  /\ store0 = store
  /\ RunStart

(***************************************************************************)
(* update_csv, lines 257-266: load the existing table.                     *)
(***************************************************************************)
LoadExisting ==
  /\ pc = "LoadExisting"
  /\ LET loaded == get_latest_timestamp_from_csv(store) IN
       /\ latest_csv_time' = loaded[1]
       /\ df_existing' = loaded[2]
       /\ IF loaded[2] = None
          THEN /\ success' = "False"
               /\ pc' = "Returned"
          ELSE /\ success' = success
               /\ pc' = "FetchNew"
  /\ UNCHANGED <<store, api, df_new, df_combined, new_rows, written,
                 exit_status, calls, results, store0, saves, df_again, net, conv>>

(***************************************************************************)
(* fetch_recent_klines, lines 242-249: one turn of the loop over `apis`    *)
(* in two steps, the adapter's request and its return, and the return of   *)
(* fetch_recent_klines after the last turn.                                *)
(***************************************************************************)
\* an adapter that sends its request a second time
adapter_request_twice ==
  /\ pc = "FetchNew"
  /\ calls' = Append(calls, apis[api])
  /\ requests' = requests + 2
  /\ pc' = "InFlight"
  /\ UNCHANGED <<store, latest_csv_time, df_existing, api, df_new, df_combined,
                 new_rows, written, success, exit_status, results, store0,
                 saves, df_again, cause, conv>>

\* line 243 calls the adapter, whose requests.get sends the one request
adapter_request ==
  /\ pc = "FetchNew"
  /\ calls' = Append(calls, apis[api])
  /\ requests' = requests + 1
  /\ pc' = "InFlight"
  /\ UNCHANGED <<store, latest_csv_time, df_existing, api, df_new, df_combined,
                 new_rows, written, success, exit_status, results, store0,
                 saves, df_again, cause, conv>>

\* the response arrives and the adapter returns; lines 244-249
fetch_recent_klines ==
  /\ pc = "InFlight"
  /\ \E o \in AdapterOutcomes[apis[api]] :
       /\ results' = Append(results, o.value)
       /\ IF "raises" \in DOMAIN o.value
          THEN /\ df_new' = df_new
               /\ pc' = "Raised"
               /\ api' = api
               /\ cause' = o.log
          ELSE IF o.value # None /\ Len(o.value.rows) > 0
          THEN /\ df_new' = o.value
               /\ pc' = "CheckFetch"
               /\ api' = api
               /\ cause' = "none"
          ELSE IF api = Len(apis)
          THEN /\ df_new' = None
               /\ pc' = "CheckFetch"
               /\ api' = api
               /\ cause' = "none"
          ELSE /\ df_new' = df_new
               /\ pc' = "FetchNew"
               /\ api' = api + 1
               /\ cause' = o.log
  /\ UNCHANGED <<store, latest_csv_time, df_existing, df_combined, new_rows,
                 written, success, exit_status, calls, store0, saves, df_again,
                 requests, conv>>

(***************************************************************************)
(* update_csv, lines 271-273: give up when no provider delivered.          *)
(***************************************************************************)
\* the failed fetch reported as success
CheckFetch_returns_True ==
  /\ pc = "CheckFetch"
  /\ IF df_new = None \/ Len(df_new.rows) = 0
     THEN /\ success' = "True"
          /\ pc' = "Returned"
     ELSE /\ success' = success
          /\ pc' = "Merge"
  /\ UNCHANGED <<store, latest_csv_time, df_existing, api, df_new, df_combined,
                 new_rows, written, exit_status, calls, results, store0,
                 saves, df_again, net, conv>>

\* the failed fetch started over from the first provider
CheckFetch_retries ==
  /\ pc = "CheckFetch"
  /\ IF df_new = None \/ Len(df_new.rows) = 0
     THEN /\ pc' = "FetchNew"
          /\ api' = 1
          /\ calls' = <<>>
          /\ results' = <<>>
          /\ requests' = 0
     ELSE /\ pc' = "Merge"
          /\ UNCHANGED <<api, calls, results, requests>>
  /\ UNCHANGED <<store, latest_csv_time, df_existing, df_new, df_combined,
                 new_rows, written, success, exit_status, store0,
                 saves, df_again, cause, conv>>

CheckFetch ==
  /\ pc = "CheckFetch"
  /\ IF df_new = None \/ Len(df_new.rows) = 0
     THEN /\ success' = "False"
          /\ pc' = "Returned"
     ELSE /\ success' = success
          /\ pc' = "Merge"
  /\ UNCHANGED <<store, latest_csv_time, df_existing, api, df_new, df_combined,
                 new_rows, written, exit_status, calls, results, store0,
                 saves, df_again, net, conv>>

(***************************************************************************)
(* update_csv, lines 275-285: combine, drop duplicates, sort, count.       *)
(***************************************************************************)
Merge ==
  /\ pc = "Merge"
  /\ df_combined' = merge(df_existing, df_new)
  /\ new_rows' = Len(merge(df_existing, df_new).rows) - Len(df_existing.rows)
  /\ pc' = "Persist"
  /\ UNCHANGED <<store, latest_csv_time, df_existing, api, df_new, written,
                 success, exit_status, calls, results, store0, saves, df_again, net, conv>>

(***************************************************************************)
(* update_csv, lines 287-303: both branches of `if new_rows > 0` write the *)
(* table with df_combined.to_csv(CSV_FILE) and return True.                *)
(***************************************************************************)
\* the else branch reporting success without writing
branch_skips_save(n) ==
  IF n > 0
  THEN [to_csv |-> TRUE, returns |-> "True"]
  ELSE [to_csv |-> FALSE, returns |-> "True"]

\* what the branch taken for this new_rows does
branch(n) ==
  IF n > 0
  THEN [to_csv |-> TRUE, returns |-> "True"]
  ELSE [to_csv |-> TRUE, returns |-> "True"]

\* to_csv opens CSV_FILE with mode 'w': the file is truncated in place
to_csv_open ==
  /\ pc = "Persist"
  /\ IF branch(new_rows).to_csv
     THEN /\ store' = File(<<>>)
          /\ saves' = saves + 1
          /\ pc' = "Writing"
          /\ success' = success
     ELSE /\ store' = store
          /\ saves' = saves
          /\ pc' = "Returned"
          /\ success' = branch(new_rows).returns
  /\ written' = 0
  /\ UNCHANGED <<latest_csv_time, df_existing, api, df_new, df_combined,
                 new_rows, exit_status, calls, results, store0, df_again, net, conv>>

\* the next line of the text reaches the file
to_csv_write ==
  /\ pc = "Writing"
  /\ written < Len(to_csv(df_combined))
  /\ store' = File(Append(store.lines, to_csv(df_combined)[written + 1]))
  /\ written' = written + 1
  /\ UNCHANGED <<pc, latest_csv_time, df_existing, api, df_new, df_combined,
                 new_rows, success, exit_status, calls, results, store0,
                 saves, df_again, net, conv>>

\* to_csv returning before the whole text is in the file
to_csv_close_early ==
  /\ pc = "Writing"
  /\ written <= Len(to_csv(df_combined))
  /\ success' = branch(new_rows).returns
  /\ pc' = "Returned"
  /\ UNCHANGED <<store, latest_csv_time, df_existing, api, df_new, df_combined,
                 new_rows, written, exit_status, calls, results, store0,
                 saves, df_again, net, conv>>

\* the whole text is in the file: to_csv returns, update_csv returns True
to_csv_close ==
  /\ pc = "Writing"
  /\ written = Len(to_csv(df_combined))
  /\ success' = branch(new_rows).returns
  /\ pc' = "Returned"
  /\ UNCHANGED <<store, latest_csv_time, df_existing, api, df_new, df_combined,
                 new_rows, written, exit_status, calls, results, store0,
                 saves, df_again, net, conv>>

\* to_csv raises OSError, at the open (the file is as it was) or at a write
\* (the file keeps what was written); update_csv does not catch it
to_csv_raises ==
  /\ \/ /\ pc = "Persist"
        /\ branch(new_rows).to_csv
        /\ saves' = saves + 1
     \/ /\ pc = "Writing"
        /\ saves' = saves
  /\ pc' = "Raised"
  /\ UNCHANGED <<store, latest_csv_time, df_existing, api, df_new, df_combined,
                 new_rows, written, success, exit_status, calls, results,
                 store0, df_again, net, conv>>

(***************************************************************************)
(* main, lines 305-318: the exit status.                                   *)
(***************************************************************************)
\* an exception handler that exits with status 0
sys_exit_swallows(at, returned) ==
  IF at = "Raised" THEN 0
  ELSE IF returned = "True" THEN 0
  ELSE 1

\* the argument of sys.exit: for a returned value, or for an exception
sys_exit(at, returned) ==
  IF at = "Raised" THEN 1
  ELSE IF returned = "True" THEN 0
  ELSE 1

\* a main that starts update_csv again until it returns True
main_restarts ==
  /\ pc \in {"Returned", "Raised"}
  /\ IF pc = "Returned" /\ success = "False"
     THEN /\ pc' = "LoadExisting"
          /\ exit_status' = exit_status
          /\ success' = "unset"
          /\ latest_csv_time' = None
          /\ df_existing' = None
          /\ api' = 1
          /\ df_new' = None
          /\ calls' = <<>>
          /\ results' = <<>>
          /\ cause' = "none"
          /\ requests' = 0
     ELSE /\ pc' = "Exited"
          /\ exit_status' = sys_exit(pc, success)
          /\ UNCHANGED <<success, latest_csv_time, df_existing, api, df_new,
                         calls, results, net>>
  /\ UNCHANGED <<store, df_combined, new_rows, written, store0, saves,
                 df_again, conv>>

main ==
  /\ pc \in {"Returned", "Raised"}
  /\ exit_status' = sys_exit(pc, success)
  /\ pc' = "Exited"
  /\ UNCHANGED <<store, latest_csv_time, df_existing, api, df_new, df_combined,
                 new_rows, written, success, calls, results, store0, saves,
                 df_again, net, conv>>

(***************************************************************************)
(* The environment: the process is terminated from outside, and the        *)
(* scheduler starts the next run once the previous one is over.            *)
(***************************************************************************)
Running == pc \notin {"Exited", "Killed"}

Kill ==
  /\ Running
  /\ pc' = "Killed"
  /\ UNCHANGED <<store, latest_csv_time, df_existing, api, df_new, df_combined,
                 new_rows, written, success, exit_status, calls, results,
                 store0, saves, df_again, net, conv>>

NextRun ==
  /\ ~Running
  /\ pc' = "LoadExisting"
  /\ latest_csv_time' = None
  /\ df_existing' = None
  /\ api' = 1
  /\ df_new' = None
  /\ df_combined' = None
  /\ new_rows' = 0
  /\ written' = 0
  /\ success' = "unset"
  /\ exit_status' = -1
  /\ calls' = <<>>
  /\ results' = <<>>
  /\ saves' = 0
  /\ store0' = store
  /\ cause' = "none"
  /\ requests' = 0
  /\ UNCHANGED <<store, df_again, conv>>

Next ==
  \/ LoadExisting
  \/ adapter_request
  \/ fetch_recent_klines
  \/ CheckFetch
  \/ Merge
  \/ to_csv_open
  \/ to_csv_write
  \/ to_csv_close
  \/ to_csv_raises
  \/ main
  \/ Kill
  \/ NextRun

Spec == Init /\ [][Next]_vars

\* the steps of one run
Step ==
  \/ LoadExisting
  \/ adapter_request
  \/ fetch_recent_klines
  \/ CheckFetch
  \/ Merge
  \/ to_csv_open
  \/ to_csv_write
  \/ to_csv_close
  \/ to_csv_raises
  \/ main

\* one run from any seeded file, which may be terminated from outside
RunNext ==
  \/ Step
  \/ Kill

\* the steps between the calls: a run that is not killed takes its next
\* step, and the file operations return (a write may raise, it need not)
OwnStep ==
  \/ LoadExisting
  \/ adapter_request
  \/ CheckFetch
  \/ to_csv_open
  \/ to_csv_write
  \/ to_csv_close
  \/ main

\* the calls return: requests.get(..., timeout=30) does not stay in flight
\* for ever (fetch_recent_klines is the one step enabled at "InFlight", for
\* whatever response), nor does the concat/dedup/sort of two finite frames
\* (Merge is the one step enabled at "Merge")
calls_return == []<>(pc \notin {"InFlight", "Merge"})

FairSpec == Init /\ [][RunNext]_vars /\ WF_vars(OwnStep) /\ calls_return

(***************************************************************************)
(* The merge on its own: update_csv's merge step applied to any two frames *)
(* (any order, any duplicates), and applied again to its own result.       *)
(***************************************************************************)
AnyFrames == {DataFrame(r) : r \in SeqsUpTo(TableRows, MaxMergeLen)}

\* the scenario of five consecutive hours T-3 .. T+1: a table of T-3, T-2,
\* T-1 and a fetch result of T-1 (with another value), T, T+1
ExampleHour(k) == tz_convert(Timestamp((FirstHour + k) * SecPerHour, 0))
ExampleRow(k, p) == Row(ExampleHour(k), p, p, p, p, p)
ExampleExisting == DataFrame(<<ExampleRow(0, 1), ExampleRow(1, 1), ExampleRow(2, 1)>>)
ExampleIncoming == DataFrame(<<ExampleRow(2, 2), ExampleRow(3, 1), ExampleRow(4, 1)>>)

MergeInit ==
  /\ store = NoFile
  /\ store0 = NoFile
  /\ pc = "Merge"
  /\ latest_csv_time = None
  /\ df_existing \in AnyFrames \cup {ExampleExisting}
  /\ df_new \in AnyFrames \cup {ExampleIncoming}
  /\ api = 1
  /\ df_combined = None
  /\ new_rows = 0
  /\ written = 0
  /\ success = "unset"
  /\ exit_status = -1
  /\ calls = <<>>
  /\ results = <<>>
  /\ saves = 0
  /\ df_again = None
  /\ cause = "none"
  /\ requests = 0
  /\ instant = NoInstant
  /\ stamps = NoStamps

Remerge ==
  /\ pc = "Persist"
  /\ df_again = None
  /\ df_again' = merge(df_combined, df_new)
  /\ UNCHANGED <<store, pc, latest_csv_time, df_existing, api, df_new,
                 df_combined, new_rows, written, success, exit_status, calls,
                 results, store0, saves, net, conv>>

MergeNext ==
  \/ Merge
  \/ Remerge

MergeSpec == MergeInit /\ [][MergeNext]_vars

(***************************************************************************)
(* The timestamp conversion on its own: one provider timestamp, put        *)
(* through the conversion of each adapter.                                 *)
(***************************************************************************)
ConvertInit ==
  /\ store = NoFile
  /\ store0 = NoFile
  /\ pc = "Convert"
  /\ latest_csv_time = None
  /\ df_existing = None
  /\ df_new = None
  /\ api = 1
  /\ df_combined = None
  /\ new_rows = 0
  /\ written = 0
  /\ success = "unset"
  /\ exit_status = -1
  /\ calls = <<>>
  /\ results = <<>>
  /\ saves = 0
  /\ df_again = None
  /\ cause = "none"
  /\ requests = 0
  /\ instant \in ProviderMs
  /\ stamps = NoStamps

\* what is left alone by a conversion
run_vars == <<store, pc, latest_csv_time, df_existing, api, df_new, df_combined,
              new_rows, written, success, exit_status, calls, results, store0,
              saves, df_again, net>>

\* fetch_from_bybit, lines 79-82, on startTime as Bybit sends it (text)
convert_bybit ==
  /\ pc = "Convert"
  /\ "Bybit" \notin DOMAIN stamps
  /\ stamps' = stamps @@ ("Bybit" :> to_datetime_ms(astype_int(IntText(instant))))
  /\ UNCHANGED <<run_vars, instant>>

\* fetch_from_okx, lines 206-209, on ts as OKX sends it (text)
convert_okx ==
  /\ pc = "Convert"
  /\ "OKX" \notin DOMAIN stamps
  /\ stamps' = stamps @@ ("OKX" :> to_datetime_ms(astype_int(IntText(instant))))
  /\ UNCHANGED <<run_vars, instant>>

\* fetch_from_cryptocompare, lines 138-141, on time as CryptoCompare sends
\* it: a number of whole seconds
convert_cryptocompare ==
  /\ pc = "Convert"
  /\ instant.u = 0
  /\ "CryptoCompare" \notin DOMAIN stamps
  /\ stamps' = stamps @@ ("CryptoCompare" :> to_datetime_s(instant.k))
  /\ UNCHANGED <<run_vars, instant>>

ConvertNext ==
  \/ convert_bybit
  \/ convert_okx
  \/ convert_cryptocompare

ConvertSpec == ConvertInit /\ [][ConvertNext]_vars

(***************************************************************************)
(* Properties.                                                             *)
(***************************************************************************)
TimestampsOf(df) == {df.rows[i].timestamp : i \in 1..Len(df.rows)}
HasTimestamp(df, ts) == \E i \in 1..Len(df.rows) : df.rows[i].timestamp = ts
RowsAt(df, ts) == {df.rows[i] : i \in {j \in 1..Len(df.rows) : df.rows[j].timestamp = ts}}
LastRowAt(df, ts) ==
  df.rows[CHOOSE i \in 1..Len(df.rows) :
            /\ df.rows[i].timestamp = ts
            /\ \A j \in (i + 1)..Len(df.rows) : df.rows[j].timestamp # ts]
\* a result the fallback loop accepts
Usable(df) == "rows" \in DOMAIN df /\ Len(df.rows) > 0
Merged == pc = "Persist" /\ df_combined # None

\* C1: keep-last correctness.  For every timestamp present in both the
\* existing table and the incoming result, the merged table has exactly one
\* row at that timestamp and it is the incoming row (the last one incoming
\* holds for that timestamp), with all five values.
C1_KeepLast ==
  Merged =>
    \A ts \in TimestampsOf(df_existing) \cup TimestampsOf(df_new) :
      (HasTimestamp(df_existing, ts) /\ HasTimestamp(df_new, ts)) =>
        RowsAt(df_combined, ts) = {LastRowAt(df_new, ts)}

C1_Witness ==
  /\ Merged
  /\ \E ts \in Timestamps :
       /\ HasTimestamp(df_existing, ts)
       /\ HasTimestamp(df_new, ts)
       /\ LastRowAt(df_new, ts) \notin RowsAt(df_existing, ts)
       /\ RowsAt(df_combined, ts) = {LastRowAt(df_new, ts)}

\* C2: sort invariant.  Whatever the order and the duplicates of the two
\* inputs, the merged table's timestamps are strictly increasing.
C2_SortInvariant ==
  Merged => StrictlyIncreasing(df_combined.rows)

C2_Witness ==
  /\ Merged
  /\ ~StrictlyIncreasing(df_existing.rows)
  /\ ~StrictlyIncreasing(df_new.rows)
  /\ \E i \in 1..(Len(df_new.rows) - 1) :
       Before(df_new.rows[i + 1].timestamp, df_new.rows[i].timestamp)
  /\ Len(df_combined.rows) >= 2
  /\ StrictlyIncreasing(df_combined.rows)

\* C3: idempotence.  Merging the same incoming sequence into the merged
\* table again gives the merged table.
C3_Idempotent ==
  df_again # None => df_again = df_combined

C3_Witness ==
  /\ df_again # None
  /\ df_again = df_combined
  /\ df_combined # df_existing
  /\ \E ts \in Timestamps :
       /\ HasTimestamp(df_existing, ts)
       /\ HasTimestamp(df_new, ts)
       /\ LastRowAt(df_new, ts) \notin RowsAt(df_existing, ts)

\* C4: fallback order.  The adapters invoked in a run are an initial part
\* of Bybit, OKX, CryptoCompare, each at most once; every invocation before
\* the last one returned no usable result; the result handed to update_csv
\* is the last invocation's result, unmodified, and it is None only when
\* all three were tried.
C4_FallbackOrder ==
  /\ Len(calls) <= Len(apis)
  /\ Len(calls) - Len(results) \in {0, 1}
  /\ Len(calls) # Len(results) => pc \in {"InFlight", "Killed"}
  /\ \A i \in 1..Len(calls) : calls[i] = <<"Bybit", "OKX", "CryptoCompare">>[i]
  /\ \A i \in 1..(Len(calls) - 1) : ~Usable(results[i])
  /\ df_new # None => (Usable(df_new) /\ df_new = results[Len(results)])
  /\ pc = "CheckFetch" =>
       IF Usable(results[Len(results)])
       THEN df_new = results[Len(results)]
       ELSE Len(calls) = 3 /\ df_new = None

C4_Witness ==
  /\ pc = "CheckFetch"
  /\ calls = <<"Bybit", "OKX", "CryptoCompare">>
  /\ results[1] = None
  /\ results[2] = None
  /\ Usable(results[3])
  /\ df_new = results[3]

\* C5: when all three adapters fail, the run never writes: the file is what
\* it was when the run started, the run does not get past the fetch, and
\* update_csv returns False (exit status 1).
AllProvidersFailed ==
  /\ Len(results) = 3
  /\ \A i \in 1..3 : ~Usable(results[i])

C5_AllFailedUntouched ==
  AllProvidersFailed =>
    /\ store = store0
    /\ saves = 0
    /\ pc \in {"CheckFetch", "Returned", "Exited", "Killed"}
    /\ pc \in {"Returned", "Exited"} => success = "False"
    /\ pc = "Exited" => exit_status = 1

C5_Witness ==
  /\ AllProvidersFailed
  /\ pc = "Exited"
  /\ success = "False"
  /\ exit_status = 1
  /\ store0.exists
  /\ Len(store0.lines) > 1
  /\ store = store0

\* C6: no adapter is invoked unless the load of the existing table has
\* succeeded; with the file absent the run returns False with no call made.
C6_LoadBeforeNetwork ==
  /\ calls # <<>> =>
       /\ "raises" \notin DOMAIN read_csv(store0)
       /\ df_existing = read_csv(store0)
  /\ (~store0.exists /\ pc \in {"Returned", "Exited"}) =>
       (calls = <<>> /\ success = "False")

C6_Witness ==
  /\ ~store0.exists
  /\ pc = "Exited"
  /\ calls = <<>>
  /\ success = "False"
  /\ exit_status = 1

\* C7: atomic persist.  At every point of a run the file holds the complete
\* previous table or the complete merged table.
C7_AtomicPersist ==
  \/ store = store0
  \/ (df_combined # None /\ store = File(to_csv(df_combined)))

\* C8: a write failure is never reported as success.  When to_csv raises,
\* update_csv returns nothing and the exit status is 1; exit status 0 is
\* given only when update_csv returned True with the whole table written,
\* which is the status of the "no new rows, data refreshed" outcome.
WriteFailed == saves = 1 /\ success = "unset" /\ pc \in {"Raised", "Exited"}

C8_WriteFailureReported ==
  /\ pc = "Raised" => success = "unset"
  /\ (WriteFailed /\ pc = "Exited") => exit_status = 1
  /\ (pc = "Exited" /\ exit_status = 0) =>
       /\ success = "True"
       /\ store = File(to_csv(df_combined))
  /\ (pc = "Exited" /\ success = "True") => exit_status = 0

C8_Witness ==
  /\ WriteFailed
  /\ pc = "Exited"
  /\ exit_status = 1
  /\ new_rows = 0
  /\ store # File(to_csv(df_combined))

\* C9 as stated: every run in which the load succeeded and an adapter
\* delivered writes the merged table exactly once and reports success,
\* with new rows or without.
C9_AlwaysPersists ==
  (pc = "Exited" /\ df_new # None) =>
    /\ saves = 1
    /\ store = File(to_csv(df_combined))
    /\ success = "True"
    /\ exit_status = 0

\* C9 amended: every such run calls to_csv exactly once, with new rows or
\* without; unless that call raises, the file then holds the merged table
\* and the run reports success.
C9_PersistsUnlessWriteFails ==
  (pc = "Exited" /\ df_new # None) =>
    /\ saves = 1
    /\ \/ WriteFailed
       \/ /\ store = File(to_csv(df_combined))
          /\ success = "True"
          /\ exit_status = 0

C9_Witness ==
  /\ pc = "Exited"
  /\ df_new # None
  /\ new_rows = 0
  /\ saves = 1
  /\ success = "True"
  /\ store = File(to_csv(df_combined))
  /\ store # store0

\* C10: what the load returns for a missing file differs from what it
\* returns for a file that exists but cannot be read.
C10_LoadFailsDistinctly ==
  (pc = "Returned" /\ ~store0.exists) =>
    <<latest_csv_time, df_existing>> # get_latest_timestamp_from_csv(CorruptFile)

\* C11: adapter failures are absorbed.  Whatever the response (connection
\* error, timeout, error status, undecodable body, error envelope, empty or
\* malformed payload), the adapter hands back None or a frame, never an
\* exception; after a failure the loop goes on to the next adapter, and
\* update_csv returns False for the fetch only when all three have failed.
C11_AdapterFailuresAbsorbed ==
  /\ \A i \in 1..Len(results) : results[i] = None \/ "rows" \in DOMAIN results[i]
  /\ pc = "Raised" => saves = 1
  /\ cause # "none" =>
       /\ pc \in {"FetchNew", "InFlight", "Killed"}
       /\ Len(results) < Len(apis)
       /\ api = Len(results) + 1
       /\ results[Len(results)] = None
  /\ (pc \in {"Returned", "Exited"} /\ success = "False" /\ df_existing # None) =>
       AllProvidersFailed

C11_Witness ==
  /\ pc = "InFlight"
  /\ calls = <<"Bybit", "OKX", "CryptoCompare">>
  /\ results = <<None, None>>
  /\ cause = "Timeout"

\* C13: the timestamp conversion is exact and the same in the three
\* adapters.  A provider timestamp denoting the instant t is stored as the
\* naive civil time t + 8 hours, to the millisecond; two adapters given the
\* same instant store the same key; 2024-01-01T00:00:00Z is stored as
\* 2024-01-01 08:00:00.
C13_TimestampConversion ==
  /\ \A a \in DOMAIN stamps : stamps[a] = Timestamp(instant.k + 8 * 3600, instant.u)
  /\ \A a, b \in DOMAIN stamps : stamps[a] = stamps[b]
  /\ instant = Int64(1704067200, 0) =>
       \A a \in DOMAIN stamps : strftime(stamps[a]) = "2024-01-01 08:00:00"

C13_Witness ==
  /\ IntText(instant) = "1704067200000"
  /\ DOMAIN stamps = {"Bybit", "OKX", "CryptoCompare"}
  /\ strftime(stamps["Bybit"]) = "2024-01-01 08:00:00"
  /\ strftime(stamps["CryptoCompare"]) = "2024-01-01 08:00:00"

\* the invariant of the candle table: strictly increasing timestamps (hence
\* no duplicates)
TableInvariant(df) == StrictlyIncreasing(df.rows)

\* C12: merge with an empty incoming sequence is a no-op.  For every
\* existing table with strictly increasing timestamps, concat / keep-last
\* dedup / sort applied with an empty incoming gives a table equal to
\* existing: same rows, same order, same values.
C12_EmptyIncomingNoOp ==
  (Merged /\ TableInvariant(df_existing) /\ df_new.rows = <<>>) =>
    /\ df_combined = df_existing
    /\ new_rows = 0

C12_Witness ==
  /\ Merged
  /\ df_new.rows = <<>>
  /\ Len(df_existing.rows) >= 2
  /\ TableInvariant(df_existing)
  /\ df_combined = df_existing

\* C16: row count of the merge.  For every existing table with strictly
\* increasing timestamps and every incoming sequence, the merged table's
\* timestamps are the union of both inputs' timestamps, one row each, and
\* new_rows = len(merged) - len(existing) is the number of distinct incoming
\* timestamps absent from existing, never negative; T-3, T-2, T-1 merged with
\* T-1, T, T+1 gives the five hours, T-1 with the new value, new_rows = 2.
C16_RowCount ==
  (Merged /\ TableInvariant(df_existing)) =>
    /\ TimestampsOf(df_combined) = TimestampsOf(df_existing) \cup TimestampsOf(df_new)
    /\ Len(df_combined.rows) = Cardinality(TimestampsOf(df_combined))
    /\ new_rows = Cardinality(TimestampsOf(df_new) \ TimestampsOf(df_existing))
    /\ new_rows >= 0
    /\ (df_existing = ExampleExisting /\ df_new = ExampleIncoming) =>
         /\ df_combined = DataFrame(<<ExampleRow(0, 1), ExampleRow(1, 1), ExampleRow(2, 2),
                                      ExampleRow(3, 1), ExampleRow(4, 1)>>)
         /\ new_rows = 2

C16_Witness ==
  /\ Merged
  /\ df_existing = ExampleExisting
  /\ df_new = ExampleIncoming
  /\ Len(df_combined.rows) = 5
  /\ new_rows = 2

\* C17: frame of the merge.  For every existing table with strictly
\* increasing timestamps and every incoming sequence, each existing row whose
\* timestamp incoming does not deliver is the merged table's one row at that
\* timestamp, all five values unchanged, and no stored hour is removed.
C17_MergeFrame ==
  (Merged /\ TableInvariant(df_existing)) =>
    /\ \A i \in 1..Len(df_existing.rows) :
         ~HasTimestamp(df_new, df_existing.rows[i].timestamp) =>
           RowsAt(df_combined, df_existing.rows[i].timestamp) = {df_existing.rows[i]}
    /\ TimestampsOf(df_existing) \subseteq TimestampsOf(df_combined)

C17_Witness ==
  /\ Merged
  /\ TableInvariant(df_existing)
  /\ Len(df_new.rows) > 0
  /\ \E i \in 1..Len(df_existing.rows) :
       /\ ~HasTimestamp(df_new, df_existing.rows[i].timestamp)
       /\ RowsAt(df_combined, df_existing.rows[i].timestamp) = {df_existing.rows[i]}
  /\ \E ts \in TimestampsOf(df_existing) :
       /\ HasTimestamp(df_new, ts)
       /\ RowsAt(df_combined, ts) # RowsAt(df_existing, ts)

\* the stage of the run a position belongs to
Stage(at) ==
  CASE at = "LoadExisting" -> 1
    [] at \in {"FetchNew", "InFlight", "CheckFetch"} -> 2
    [] at = "Merge" -> 3
    [] at \in {"Persist", "Writing"} -> 4
    [] at \in {"Returned", "Raised", "Exited"} -> 5
    [] OTHER -> 6

\* the steps from one position of a run to another
Edges ==
  {<<"LoadExisting", "FetchNew">>, <<"LoadExisting", "Returned">>,
   <<"FetchNew", "InFlight">>, <<"InFlight", "FetchNew">>,
   <<"InFlight", "CheckFetch">>,
   <<"CheckFetch", "Merge">>, <<"CheckFetch", "Returned">>,
   <<"Merge", "Persist">>,
   <<"Persist", "Writing">>, <<"Persist", "Raised">>,
   <<"Writing", "Returned">>, <<"Writing", "Raised">>,
   <<"Returned", "Exited">>, <<"Raised", "Exited">>}

\* C14: the run is a linear state machine.  A run goes through load, fetch,
\* merge, persist, done in that order and never back; inside the fetch stage
\* the only way back is on to the next provider; a stage is left early only
\* for a failed load (returns False, nothing loaded), a failed fetch (returns
\* False, all providers failed) or an exception of the write; merge and
\* persist are reached only with a loaded table and a usable fetch result.
C14_LinearStateMachine ==
  [][(Running /\ pc' # "Killed" /\ pc' # pc) =>
       /\ <<pc, pc'>> \in Edges
       /\ Stage(pc') \in {Stage(pc), Stage(pc) + 1, 5}
       /\ (pc = "InFlight" /\ pc' = "FetchNew") => api' = api + 1
       /\ (pc = "LoadExisting" /\ pc' = "Returned") =>
            (df_existing' = None /\ success' = "False")
       /\ (pc = "CheckFetch" /\ pc' = "Returned") =>
            (success' = "False" /\ Len(results) = 3
             /\ \A i \in 1..3 : ~Usable(results[i]))
       /\ (pc' = "Returned" /\ pc \in {"Persist", "Writing"}) => success' = "True"
       /\ pc' \in {"Merge", "Persist", "Writing"} =>
            (df_existing' # None /\ Usable(df_new'))
       /\ pc' = "Writing" => saves' = 1
  ]_vars

C14_Witness ==
  /\ pc = "Exited"
  /\ success = "True"
  /\ exit_status = 0
  /\ saves = 1
  /\ Len(calls) = 2
  /\ df_combined # None

\* C15: the fallback chain is sequential and without retry.  At most one
\* adapter call is in flight; an adapter is invoked only after every adapter
\* before it has returned None or an empty frame; no adapter is invoked
\* twice; every invocation has sent exactly one request, so a run sends at
\* most three.
C15_SequentialNoRetry ==
  /\ Len(calls) - Len(results) \in {0, 1}
  /\ (pc = "InFlight") <=> (Running /\ Len(calls) = Len(results) + 1)
  /\ \A i \in 1..Len(calls) : \A j \in 1..Len(calls) : calls[i] = calls[j] => i = j
  /\ \A i \in 2..Len(calls) : Len(results) >= i - 1 /\ ~Usable(results[i - 1])
  /\ requests = Len(calls)
  /\ requests <= 3

C15_Witness ==
  /\ pc = "InFlight"
  /\ requests = 3
  /\ Len(calls) = 3
  /\ Len(results) = 2

\* the first result of the run that the fallback loop accepts
FirstUsable(rs) == rs[CHOOSE i \in 1..Len(rs) : Usable(rs[i]) /\ \A j \in 1..(i - 1) : ~Usable(rs[j])]

\* C18: success postcondition.  Whenever update_csv has returned True, the
\* file holds the text of merge(table loaded at the start of the run, result
\* of the first adapter in priority order that returned a non-empty frame),
\* it reads back as that table, and to_csv was called once.
C18_SuccessPostcondition ==
  (pc \in {"Returned", "Exited"} /\ success = "True") =>
    /\ saves = 1
    /\ \E i \in 1..Len(results) : Usable(results[i])
    /\ df_existing = read_csv(store0)
    /\ store = File(to_csv(merge(read_csv(store0), FirstUsable(results))))
    /\ read_csv(store) = merge(read_csv(store0), FirstUsable(results))

C18_Witness ==
  /\ pc = "Returned"
  /\ success = "True"
  /\ Len(results) = 3
  /\ Usable(results[3])
  /\ Len(df_existing.rows) > 0
  /\ store # store0
  /\ read_csv(store) = merge(df_existing, results[3])

\* what the file holds is a candle table with strictly increasing timestamps
TableInFile(file) ==
  /\ "rows" \in DOMAIN read_csv(file)
  /\ TableInvariant(read_csv(file))

\* C19: append-only store across runs.  A run that starts on a file holding
\* a table with strictly increasing timestamps and exits, with success or
\* with failure, leaves a file holding a table with strictly increasing
\* timestamps that has every timestamp the run started with.
C19_AppendOnly ==
  (pc = "Exited" /\ TableInFile(store0)) =>
    /\ TableInFile(store)
    /\ TimestampsOf(read_csv(store0)) \subseteq TimestampsOf(read_csv(store))

\* C20: every run terminates.  With every adapter call and every file
\* operation returning, a run that is not terminated from outside reaches
\* sys.exit, with status 0 when update_csv returned True and with status 1
\* when it returned False or raised.
C20_Terminates ==
  /\ [](pc = "Exited" =>
          \/ success = "True" /\ exit_status = 0
          \/ success \in {"False", "unset"} /\ exit_status = 1)
  /\ (pc = "LoadExisting") ~> (pc \in {"Exited", "Killed"})

C20_Witness ==
  /\ pc = "Exited"
  /\ exit_status = 1
  /\ success = "False"
  /\ Len(results) = 3
  /\ store = store0

====
